---- MODULE Spec2Model ----
(***************************************************************************)
(* Campaign resolvers of sourcegraph: the memoized file-diff pagination    *)
(* (fileDiffConnectionCompute), patch application (applyPatch), the        *)
(* changeset list options (listChangesetOptsFromArgs) and the aggregate    *)
(* diff stat of a patch set (patchSetDiffStat).                            *)
(***************************************************************************)
EXTENDS Integers, Sequences, FiniteSets, TLC

VARIABLES
    \* ---- fileDiffConnectionCompute (patch_sets.go:87-141)
    patchDiff,    \* patch.Diff: the records a MultiFileDiffReader yields
    once,         \* sync.Once: "idle", "running" or "done"
    compute,      \* the closure's variables and the running body's locals
    bodyRuns,     \* how many times the function given to once.Do has started
    callerPc,     \* each caller of the returned function: where it is
    callerRet,    \* what each caller got back
    \* ---- a client that pages through one patch
    pgPc, pgLimit, pgCursor, pgPages, pgErr,
    \* ---- applyPatch (patch_sets.go:170-202)
    ap,
    \* ---- listChangesetOptsFromArgs (part_003:287-329)
    lcArgs, lcOut,
    \* ---- patchSetDiffStat (patch_sets.go:43-85)
    ds,
    \* ---- one call of a Resolver operation (part_003:75-380)
    rs,
    \* ---- one call of a defaultCampaignsResolver operation (part_001:243-289)
    dflt,
    \* ---- the extension host's query transformers (part_002:86-181, 233-256)
    ext,
    \* ---- fileDiffVirtualFileContent (patch_sets.go:148-168)
    vf

pageVars == <<patchDiff, once, compute, bodyRuns, callerPc, callerRet>>
pagingVars == <<pgPc, pgLimit, pgCursor, pgPages, pgErr>>
\* What the callers of one compute function leave alone, and what the paging
\* client leaves alone.
notPage == <<pgPc, pgLimit, pgCursor, pgPages, pgErr, ap, lcArgs, lcOut, ds, rs, dflt, ext, vf>>
notPaging == <<patchDiff, once, compute, bodyRuns, callerPc, callerRet, ap, lcArgs, lcOut, ds,
              rs, dflt, ext, vf>>
vars == <<patchDiff, once, compute, bodyRuns, callerPc, callerRet,
          pgPc, pgLimit, pgCursor, pgPages, pgErr, ap, lcArgs, lcOut, ds, rs, dflt, ext, vf>>

(***************************************************************************)
(* Bounds of the model.                                                    *)
(***************************************************************************)
MaxFiles == 3
NumCallers == 2

(***************************************************************************)
(* int32 arithmetic.                                                       *)
(***************************************************************************)
MaxInt32 == 2147483647
MinInt32 == (0 - MaxInt32) - 1

\* Go's int32 addition: wraps around on overflow.
Int32Add(a, b) ==
    IF b > 0 /\ a > MaxInt32 - b THEN MinInt32 + ((a - MaxInt32) + (b - 1))
    ELSE IF b < 0 /\ a < MinInt32 - b THEN MaxInt32 + ((a - MinInt32) + (b + 1))
    ELSE a + b

Min(a, b) == IF a <= b THEN a ELSE b

(***************************************************************************)
(* Strings are sequences of one-character strings.                         *)
(***************************************************************************)
DigitChars == <<"0", "1", "2", "3", "4", "5", "6", "7", "8", "9",
                "a", "b", "c", "d", "e", "f">>

IsDigit(ch, base) == \E i \in 1..base : DigitChars[i] = ch
DigitVal(ch) == (CHOOSE i \in 1..16 : DigitChars[i] = ch) - 1

RECURSIVE ParseDigits(_, _, _)
\* The digits of s in the given base, accumulated onto acc; -1 when a character
\* is no digit of the base, -2 when the value does not fit in 32 bits.
ParseDigits(s, base, acc) ==
    IF s = <<>> THEN acc
    ELSE IF ~IsDigit(s[1], base) THEN -1
    ELSE IF acc > (MaxInt32 - DigitVal(s[1])) \div base THEN -2
    ELSE ParseDigits(Tail(s), base, acc * base + DigitVal(s[1]))

\* strconv.ParseInt(s, 0, 32): an optional sign, then a base prefix ("0x" hex,
\* a leading "0" octal, decimal otherwise), then digits. [ok, val]
\* (-2147483648, the one value whose magnitude exceeds MaxInt32, is not among
\* the cursors of AfterStrings.)
ParseInt(s) ==
    LET neg == s # <<>> /\ s[1] = "-"
        signed == s # <<>> /\ s[1] \in {"-", "+"}
        body == IF signed THEN Tail(s) ELSE s
        hex == Len(body) >= 2 /\ body[1] = "0" /\ body[2] = "x"
        oct == ~hex /\ Len(body) >= 2 /\ body[1] = "0"
        base == IF hex THEN 16 ELSE IF oct THEN 8 ELSE 10
        digits == IF hex THEN Tail(Tail(body)) ELSE IF oct THEN Tail(body) ELSE body
        mag == IF digits = <<>> THEN -1 ELSE ParseDigits(digits, base, 0)
    IN  IF mag < 0 THEN [ok |-> FALSE, val |-> 0]
        ELSE [ok |-> TRUE, val |-> IF neg THEN 0 - mag ELSE mag]

RECURSIVE Itoa(_)
\* strconv.Itoa for n >= 0: the decimal digits of n.
Itoa(n) == IF n < 10 THEN <<DigitChars[n + 1]>>
           ELSE Itoa(n \div 10) \o <<DigitChars[(n % 10) + 1]>>

(***************************************************************************)
(* The diff blob. A record of the blob is a well-formed file diff (named   *)
(* by its file) or text the reader cannot parse.                           *)
(***************************************************************************)
FileNames == {"f1", "f2"}
Malformed == "malformed"
Records == FileNames \cup {Malformed}

RECURSIVE SeqsUpTo(_, _)
SeqsUpTo(S, n) ==
    IF n = 0 THEN {<<>>}
    ELSE LET shorter == SeqsUpTo(S, n - 1)
         IN  shorter \cup {Append(s, x) : s \in {t \in shorter : Len(t) = n - 1}, x \in S}

Blobs == SeqsUpTo(Records, MaxFiles)

WellFormed(blob) == \A i \in 1..Len(blob) : blob[i] # Malformed

\* dr.ReadFile() with pos records already consumed.
ReadFile(blob, pos) ==
    IF pos >= Len(blob) THEN [err |-> "EOF", file |-> Malformed]
    ELSE IF blob[pos + 1] = Malformed THEN [err |-> "parse", file |-> Malformed]
    ELSE [err |-> "nil", file |-> blob[pos + 1]]

(***************************************************************************)
(* graphqlbackend.FileDiffsConnectionArgs: First *int32, After *string.    *)
(***************************************************************************)
FirstValues == {-1, 0, 1, 2, MaxInt32}
AfterStrings == {<<"0">>, <<"1">>, <<"2">>, <<"-", "1">>, <<"x">>, <<>>,
                 <<"0", "x", "2">>,
                 <<"2", "1", "4", "7", "4", "8", "3", "6", "4", "7">>,
                 <<"2", "1", "4", "7", "4", "8", "3", "6", "4", "8">>}

Args(hasFirst, first, hasAfter, after) ==
    [hasFirst |-> hasFirst, First |-> first, hasAfter |-> hasAfter, After |-> after]

ArgsSet == {Args(FALSE, 0, FALSE, <<>>)}
           \cup {Args(TRUE, f, FALSE, <<>>) : f \in FirstValues}
           \cup {Args(FALSE, 0, TRUE, a) : a \in AfterStrings}
           \cup {Args(TRUE, f, TRUE, a) : f \in FirstValues, a \in AfterStrings}

(***************************************************************************)
(* The function given to once.Do, one ReadFile (at most) per step.         *)
(* fileDiffs, afterIdx, hasNextPage and err are the variables the returned *)
(* closure shares; args, totalAmount, pos (the reader's position) and      *)
(* reads belong to the running body.                                       *)
(***************************************************************************)
NoArgs == Args(FALSE, 0, FALSE, <<>>)

ComputeInit ==
    [pc |-> "idle", args |-> NoArgs, fileDiffs |-> <<>>, afterIdx |-> 0,
     hasNextPage |-> FALSE, err |-> "nil", totalAmount |-> 0, pos |-> 0,
     reads |-> 0]

\* once.Do(func() { ... }) is entered with the caller's args captured.
BodyStart(c, args) == [c EXCEPT !.pc = "cursor", !.args = args]

\* BodyCursor with the cursor left out of the total amount.
BodyCursorNoOffset(c) ==
    LET parsed == ParseInt(c.args.After)
        parsedIdx == IF parsed.val < 0 THEN 0 ELSE parsed.val
        afterIdx == IF c.args.hasAfter THEN parsedIdx ELSE c.afterIdx
        totalAmount == IF c.args.hasFirst THEN c.args.First ELSE afterIdx
    IN  IF c.args.hasAfter /\ ~parsed.ok THEN [c EXCEPT !.pc = "done"]
        ELSE [c EXCEPT !.pc = "loop", !.afterIdx = afterIdx,
                       !.totalAmount = totalAmount]

\* Lines 97-110: the cursor and the total amount. The err of the ParseInt call
\* is a new variable of the if block: the closure's err stays nil.
BodyCursor(c) ==
    LET parsed == ParseInt(c.args.After)
        parsedIdx == IF parsed.val < 0 THEN 0 ELSE parsed.val
        afterIdx == IF c.args.hasAfter THEN parsedIdx ELSE c.afterIdx
        totalAmount == IF c.args.hasFirst THEN Int32Add(afterIdx, c.args.First)
                       ELSE afterIdx
    IN  IF c.args.hasAfter /\ ~parsed.ok THEN [c EXCEPT !.pc = "done"]
        ELSE [c EXCEPT !.pc = "loop", !.afterIdx = afterIdx,
                       !.totalAmount = totalAmount]

\* BodyRead that never stops at the size of the page.
BodyReadNoStop(c, blob) ==
    LET r == ReadFile(blob, c.pos)
        fileDiffs == Append(c.fileDiffs, r.file)
    IN  IF r.err = "EOF" THEN [c EXCEPT !.pc = "done", !.err = "nil", !.reads = @ + 1]
        ELSE IF r.err # "nil" THEN [c EXCEPT !.pc = "done", !.err = r.err, !.reads = @ + 1]
        ELSE [c EXCEPT !.fileDiffs = fileDiffs, !.pos = @ + 1, !.reads = @ + 1,
                       !.err = "nil", !.pc = "loop"]

\* Lines 113-124: one iteration of the loop up to the test of the page's size.
BodyRead(c, blob) ==
    LET r == ReadFile(blob, c.pos)
        fileDiffs == Append(c.fileDiffs, r.file)
    IN  IF r.err = "EOF" THEN [c EXCEPT !.pc = "done", !.err = "nil", !.reads = @ + 1]
        ELSE IF r.err # "nil" THEN [c EXCEPT !.pc = "done", !.err = r.err, !.reads = @ + 1]
        ELSE [c EXCEPT !.fileDiffs = fileDiffs, !.pos = @ + 1, !.reads = @ + 1,
                       !.err = "nil",
                       !.pc = IF Len(fileDiffs) = c.totalAmount THEN "peek" ELSE "loop"]

\* BodyPeek that never reports a next page.
BodyPeekNoFlag(c, blob) ==
    LET r == ReadFile(blob, c.pos)
    IN  IF r.err # "nil" /\ r.err # "EOF"
        THEN [c EXCEPT !.pc = "done", !.err = r.err, !.reads = @ + 1]
        ELSE [c EXCEPT !.pc = "done", !.err = "nil", !.reads = @ + 1]

\* Lines 125-135: one more ReadFile decides hasNextPage.
BodyPeek(c, blob) ==
    LET r == ReadFile(blob, c.pos)
    IN  IF r.err # "nil" /\ r.err # "EOF"
        THEN [c EXCEPT !.pc = "done", !.err = r.err, !.reads = @ + 1]
        ELSE IF r.err = "EOF"
        THEN [c EXCEPT !.pc = "done", !.err = "nil", !.reads = @ + 1]
        ELSE [c EXCEPT !.pc = "done", !.err = "nil", !.hasNextPage = TRUE,
                       !.pos = @ + 1, !.reads = @ + 1]

BodyStep(c, blob) ==
    CASE c.pc = "cursor" -> BodyCursor(c)
      [] c.pc = "loop" -> BodyRead(c, blob)
      [] c.pc = "peek" -> BodyPeek(c, blob)
      [] OTHER -> c

RECURSIVE RunBody(_, _)
RunBody(c, blob) == IF c.pc = "done" THEN c ELSE RunBody(BodyStep(c, blob), blob)

\* What line 139 returns.
Outcome(c) == [fileDiffs |-> c.fileDiffs, afterIdx |-> c.afterIdx,
               hasNextPage |-> c.hasNextPage, err |-> c.err]

\* One call, alone, of a fresh fileDiffConnectionCompute(patch).
ComputeOnce(blob, args) == Outcome(RunBody(BodyStart(ComputeInit, args), blob))

(***************************************************************************)
(* sync.Once and the callers of one returned function.                     *)
(***************************************************************************)
Callers == 1..NumCallers

\* once.Do runs the function only for the first call.
OnceRacy == once # "done"
OnceFirst == once = "idle"

\* once.Do returns only when the first call's function has returned.
OnceNoWait == FALSE
OnceBlocks == once = "running"

NoRet == [fileDiffs |-> <<>>, afterIdx |-> 0, hasNextPage |-> FALSE, err |-> "none"]

PageInit ==
    /\ patchDiff \in Blobs
    /\ once = "idle"
    /\ compute = ComputeInit
    /\ bodyRuns = 0
    /\ callerPc = [p \in Callers |-> "idle"]
    /\ callerRet = [p \in Callers |-> NoRet]

\* Line 96: a caller enters once.Do with its args. Only the function of the
\* first call runs, so only its args are ever read.
Call(p) ==
    /\ callerPc[p] = "idle"
    /\ IF OnceFirst
       THEN \E args \in ArgsSet :
              /\ once' = "running"
              /\ compute' = BodyStart(compute, args)
              /\ bodyRuns' = bodyRuns + 1
              /\ callerPc' = [callerPc EXCEPT ![p] = "body"]
       ELSE /\ callerPc' = [callerPc EXCEPT ![p] = IF OnceBlocks THEN "blocked" ELSE "return"]
            /\ UNCHANGED <<once, compute, bodyRuns>>
    /\ UNCHANGED <<patchDiff, callerRet>>
    /\ UNCHANGED notPage

\* Lines 97-137: the first caller runs the body; Do marks the Once done when
\* the body returns.
Body(p) ==
    /\ callerPc[p] = "body"
    /\ compute.pc # "done"
    /\ compute' = BodyStep(compute, patchDiff)
    /\ IF compute'.pc = "done"
       THEN once' = "done" /\ callerPc' = [callerPc EXCEPT ![p] = "return"]
       ELSE UNCHANGED <<once, callerPc>>
    /\ UNCHANGED <<patchDiff, bodyRuns, callerRet>>
    /\ UNCHANGED notPage

\* A caller blocked in once.Do goes on when the Once is done.
Unblock(p) ==
    /\ callerPc[p] = "blocked"
    /\ once = "done"
    /\ callerPc' = [callerPc EXCEPT ![p] = "return"]
    /\ UNCHANGED <<patchDiff, once, compute, bodyRuns, callerRet>>
    /\ UNCHANGED notPage

\* Line 139.
Return(p) ==
    /\ callerPc[p] = "return"
    /\ callerRet' = [callerRet EXCEPT ![p] = Outcome(compute)]
    /\ callerPc' = [callerPc EXCEPT ![p] = "returned"]
    /\ UNCHANGED <<patchDiff, once, compute, bodyRuns>>
    /\ UNCHANGED notPage

(***************************************************************************)
(* A client that pages through one patch: every request is served by a     *)
(* fresh resolver, hence a fresh fileDiffConnectionCompute(patch).         *)
(***************************************************************************)
MaxLimit == 2

\* The page of a response: the file diffs from the request's cursor on.
PageOf(r) == IF r.afterIdx >= Len(r.fileDiffs) THEN <<>>
             ELSE SubSeq(r.fileDiffs, r.afterIdx + 1, Len(r.fileDiffs))

\* The cursor of the page after a response's.
NextCursor(r, limit) == r.afterIdx + limit

PagingInit ==
    /\ pgPc = "request"
    /\ pgLimit \in 1..MaxLimit
    /\ pgCursor = 0
    /\ pgPages = <<>>
    /\ pgErr = "nil"

PagingOff ==
    /\ pgPc = "off"
    /\ pgLimit = 0
    /\ pgCursor = 0
    /\ pgPages = <<>>
    /\ pgErr = "nil"

PageRequest ==
    /\ pgPc = "request"
    /\ LET r == ComputeOnce(patchDiff, Args(TRUE, pgLimit, TRUE, Itoa(pgCursor)))
       IN  IF r.err # "nil"
           THEN /\ pgErr' = r.err
                /\ pgPc' = "done"
                /\ UNCHANGED <<pgCursor, pgPages>>
           ELSE /\ pgPages' = pgPages \o PageOf(r)
                /\ pgCursor' = IF r.hasNextPage THEN NextCursor(r, pgLimit) ELSE pgCursor
                /\ pgPc' = IF r.hasNextPage THEN "request" ELSE "done"
                /\ UNCHANGED pgErr
    /\ UNCHANGED pgLimit
    /\ UNCHANGED notPaging

(***************************************************************************)
(* applyPatch. Strings are sequences of characters; a hunk is              *)
(* [OrigStartLine, Body].                                                  *)
(***************************************************************************)
MaxContentLen == 3
MaxHunks == 2

NL == "\n"

RECURSIVE Split(_)
\* strings.Split(s, "\n")
Split(s) ==
    IF \A i \in 1..Len(s) : s[i] # NL THEN <<s>>
    ELSE LET i == CHOOSE k \in 1..Len(s) : s[k] = NL /\ \A j \in 1..(k - 1) : s[j] # NL
         IN  <<SubSeq(s, 1, i - 1)>> \o Split(SubSeq(s, i + 1, Len(s)))

RECURSIVE Join(_)
\* strings.Join(lines, "\n")
Join(lines) ==
    IF lines = <<>> THEN <<>>
    ELSE IF Len(lines) = 1 THEN lines[1]
    ELSE lines[1] \o <<NL>> \o Join(Tail(lines))

HasPrefix(line, ch) == Len(line) >= 1 /\ line[1] = ch

ContentChars == {"a", "b", NL}
FileContents == SeqsUpTo(ContentChars, MaxContentLen)

\* Hunk bodies: a removal, an addition, a context line, a replacement; every
\* line of a body ends in a newline.
HunkBodies == {<<"-", "a", NL>>, <<"+", "c", NL>>, <<" ", "a", NL>>,
               <<"-", "a", NL, "+", "c", NL>>}
Hunks == [OrigStartLine : 0..MaxContentLen, Body : HunkBodies]

\* fileDiff.Hunks, sorted by ascending lines as applyPatch assumes.
Ascending(hs) == \A i \in 1..(Len(hs) - 1) : hs[i].OrigStartLine < hs[i + 1].OrigStartLine
HunkLists == {hs \in SeqsUpTo(Hunks, MaxHunks) : Ascending(hs)}

\* The example of the spec: a 12-line base, the first hunk replaces line 3,
\* the second adds a line after line 10 and spans lines 11 and 12.
ExampleLines == <<<<"1">>, <<"2">>, <<"3">>, <<"4">>, <<"5">>, <<"6">>, <<"7">>,
                  <<"8">>, <<"9">>, <<"x">>, <<"y">>, <<"z">>>>
ExampleContent == Join(ExampleLines)
ExampleHunks == <<[OrigStartLine |-> 3, Body |-> <<"-", "3", NL, "+", "R", NL>>],
                  [OrigStartLine |-> 11,
                   Body |-> <<"+", "N", NL, " ", "y", NL, " ", "z", NL>>]>>

ApInputs == {[fileContent |-> fc, hunks |-> hs] : fc \in FileContents, hs \in HunkLists}
            \cup {[fileContent |-> ExampleContent, hunks |-> ExampleHunks]}

ApInit ==
    \E in \in ApInputs :
        ap = [pc |-> "start", fileContent |-> in.fileContent, hunks |-> in.hunks,
              contentLines |-> <<>>, newContentLines |-> <<>>, lastLine |-> 0,
              hunkIdx |-> 0, hunkLines |-> <<>>, lineIdx |-> 0, result |-> <<>>]

\* Lines 171-173.
ApStartStep(a) ==
    [a EXCEPT !.pc = "hunk", !.contentLines = Split(a.fileContent),
              !.newContentLines = <<>>, !.lastLine = 1, !.hunkIdx = 1]

\* Lines 175-182: the next hunk, the hole before it, its lines. A slice
\* expression with bounds out of range panics.
ApHunkStep(a) ==
    IF a.hunkIdx > Len(a.hunks) THEN [a EXCEPT !.pc = "rest"]
    ELSE LET hunk == a.hunks[a.hunkIdx]
             hole == hunk.OrigStartLine # 0 /\ hunk.OrigStartLine # a.lastLine
             low == a.lastLine - 1
             high == hunk.OrigStartLine - 1
             originalLines == SubSeq(a.contentLines, low + 1, high)
         IN  IF hole /\ (low > high \/ high > Len(a.contentLines))
             THEN [a EXCEPT !.pc = "panic"]
             ELSE [a EXCEPT !.pc = "line",
                            !.newContentLines = IF hole THEN @ \o originalLines ELSE @,
                            !.lastLine = IF hole THEN @ + Len(originalLines) ELSE @,
                            !.hunkLines = Split(hunk.Body),
                            !.lineIdx = 1]

\* ApLineStep whose context lines do not advance the cursor.
ApLineStepStuck(a) ==
    IF a.lineIdx > Len(a.hunkLines) THEN [a EXCEPT !.pc = "hunk", !.hunkIdx = @ + 1]
    ELSE LET line == a.hunkLines[a.lineIdx]
         IN  CASE line = <<>> -> [a EXCEPT !.lineIdx = @ + 1]
               [] HasPrefix(line, "-") -> [a EXCEPT !.lineIdx = @ + 1, !.lastLine = @ + 1]
               [] HasPrefix(line, "+") ->
                    [a EXCEPT !.lineIdx = @ + 1,
                              !.newContentLines = Append(@, Tail(line))]
               [] OTHER ->
                    IF a.lastLine - 1 >= Len(a.contentLines) THEN [a EXCEPT !.pc = "panic"]
                    ELSE [a EXCEPT !.lineIdx = @ + 1,
                                   !.newContentLines = Append(@, a.contentLines[a.lastLine])]

\* Lines 183-195: one line of the hunk. An index out of range panics.
ApLineStep(a) ==
    IF a.lineIdx > Len(a.hunkLines) THEN [a EXCEPT !.pc = "hunk", !.hunkIdx = @ + 1]
    ELSE LET line == a.hunkLines[a.lineIdx]
         IN  CASE line = <<>> -> [a EXCEPT !.lineIdx = @ + 1]
               [] HasPrefix(line, "-") -> [a EXCEPT !.lineIdx = @ + 1, !.lastLine = @ + 1]
               [] HasPrefix(line, "+") ->
                    [a EXCEPT !.lineIdx = @ + 1,
                              !.newContentLines = Append(@, Tail(line))]
               [] OTHER ->
                    IF a.lastLine - 1 >= Len(a.contentLines) THEN [a EXCEPT !.pc = "panic"]
                    ELSE [a EXCEPT !.lineIdx = @ + 1,
                                   !.newContentLines = Append(@, a.contentLines[a.lastLine]),
                                   !.lastLine = @ + 1]

\* Lines 197-201: the remaining lines and the joined result.
ApRestStep(a) ==
    LET origLines == Len(a.contentLines)
        append == origLines > 0 /\ origLines # a.lastLine
        rest == SubSeq(a.contentLines, a.lastLine, origLines)
        newContentLines == IF append THEN a.newContentLines \o rest ELSE a.newContentLines
    IN  IF append /\ a.lastLine - 1 > origLines THEN [a EXCEPT !.pc = "panic"]
        ELSE [a EXCEPT !.pc = "done", !.newContentLines = newContentLines,
                       !.result = Join(newContentLines)]

notAp == <<patchDiff, once, compute, bodyRuns, callerPc, callerRet,
           pgPc, pgLimit, pgCursor, pgPages, pgErr, lcArgs, lcOut, ds, rs, dflt, ext, vf>>

ApStart == ap.pc = "start" /\ ap' = ApStartStep(ap) /\ UNCHANGED notAp
ApHunk == ap.pc = "hunk" /\ ap' = ApHunkStep(ap) /\ UNCHANGED notAp
ApLine == ap.pc = "line" /\ ap' = ApLineStep(ap) /\ UNCHANGED notAp
ApRest == ap.pc = "rest" /\ ap' = ApRestStep(ap) /\ UNCHANGED notAp

(***************************************************************************)
(* listChangesetOptsFromArgs. A nil pointer is the string Nil.             *)
(***************************************************************************)
Nil == "<nil>"

\* campaigns.ChangesetState.Valid, ChangesetReviewState.Valid and
\* ChangesetCheckState.Valid: membership in a fixed set.
ValidChangesetStates == {"OPEN", "CLOSED", "MERGED", "DELETED"}
ValidReviewStates == {"APPROVED", "CHANGES_REQUESTED", "PENDING", "COMMENTED", "DISMISSED"}
ValidCheckStates == {"UNKNOWN", "PENDING", "PASSED", "FAILED"}

\* graphqlbackend.ListChangesetsArgs, or a nil pointer to one.
ListChangesetsArgs ==
    {[isNil |-> TRUE]}
    \cup [isNil : {FALSE}, hasFirst : BOOLEAN, First : {1},
          State : {Nil, "BOGUS"} \cup ValidChangesetStates,
          ReviewState : {Nil, "BOGUS"} \cup ValidReviewStates,
          CheckState : {Nil, "BOGUS"} \cup ValidCheckStates]

\* The zero value of ee.ListChangesetsOpts.
ZeroOpts == [Limit |-> 0, ExternalState |-> Nil, ExternalReviewState |-> Nil,
             ExternalCheckState |-> Nil]

LcResult(opts, optsSafe, err) == [pc |-> "returned", opts |-> opts, optsSafe |-> optsSafe, err |-> err]

\* listChangesetOptsFromArgs that takes any CheckState for a valid one.
ListChangesetOptsFromArgsAnyCheck(args) ==
    IF args.isNil THEN LcResult(ZeroOpts, TRUE, "nil")
    ELSE LET o1 == [ZeroOpts EXCEPT !.Limit = IF args.hasFirst THEN args.First ELSE 0]
             o2 == [o1 EXCEPT !.ExternalState = args.State]
             o3 == [o2 EXCEPT !.ExternalReviewState = args.ReviewState]
             o4 == [o3 EXCEPT !.ExternalCheckState = args.CheckState]
             safe2 == args.ReviewState = Nil
             safe3 == IF args.CheckState # Nil THEN FALSE ELSE safe2
         IN  IF args.State # Nil /\ args.State \notin ValidChangesetStates
             THEN LcResult(o1, FALSE, "changeset state not valid")
             ELSE IF args.ReviewState # Nil /\ args.ReviewState \notin ValidReviewStates
             THEN LcResult(o2, FALSE, "changeset review state not valid")
             ELSE LcResult(o4, safe3, "nil")

\* listChangesetOptsFromArgs that forgets the ReviewState filter is unsafe.
ListChangesetOptsFromArgsLeaky(args) ==
    IF args.isNil THEN LcResult(ZeroOpts, TRUE, "nil")
    ELSE LET o1 == [ZeroOpts EXCEPT !.Limit = IF args.hasFirst THEN args.First ELSE 0]
             o2 == [o1 EXCEPT !.ExternalState = args.State]
             o3 == [o2 EXCEPT !.ExternalReviewState = args.ReviewState]
             o4 == [o3 EXCEPT !.ExternalCheckState = args.CheckState]
         IN  IF args.State # Nil /\ args.State \notin ValidChangesetStates
             THEN LcResult(o1, FALSE, "changeset state not valid")
             ELSE IF args.ReviewState # Nil /\ args.ReviewState \notin ValidReviewStates
             THEN LcResult(o2, FALSE, "changeset review state not valid")
             ELSE IF args.CheckState # Nil /\ args.CheckState \notin ValidCheckStates
             THEN LcResult(o3, FALSE, "changeset check state not valid")
             ELSE LcResult(o4, args.CheckState = Nil, "nil")

\* part_003:287-329.
ListChangesetOptsFromArgs(args) ==
    IF args.isNil THEN LcResult(ZeroOpts, TRUE, "nil")
    ELSE LET o1 == [ZeroOpts EXCEPT !.Limit = IF args.hasFirst THEN args.First ELSE 0]
             o2 == [o1 EXCEPT !.ExternalState = args.State]
             o3 == [o2 EXCEPT !.ExternalReviewState = args.ReviewState]
             o4 == [o3 EXCEPT !.ExternalCheckState = args.CheckState]
             safe2 == args.ReviewState = Nil
             safe3 == IF args.CheckState # Nil THEN FALSE ELSE safe2
         IN  IF args.State # Nil /\ args.State \notin ValidChangesetStates
             THEN LcResult(o1, FALSE, "changeset state not valid")
             ELSE IF args.ReviewState # Nil /\ args.ReviewState \notin ValidReviewStates
             THEN LcResult(o2, FALSE, "changeset review state not valid")
             ELSE IF args.CheckState # Nil /\ args.CheckState \notin ValidCheckStates
             THEN LcResult(o3, FALSE, "changeset check state not valid")
             ELSE LcResult(o4, safe3, "nil")

notLc == <<patchDiff, once, compute, bodyRuns, callerPc, callerRet,
           pgPc, pgLimit, pgCursor, pgPages, pgErr, ap, ds, rs, dflt, ext, vf>>

LcInit == lcArgs \in ListChangesetsArgs /\ lcOut = [pc |-> "call"]

LcCall ==
    /\ lcOut.pc = "call"
    /\ lcOut' = ListChangesetOptsFromArgs(lcArgs)
    /\ UNCHANGED lcArgs
    /\ UNCHANGED notLc

(***************************************************************************)
(* patchSetDiffStat. The store holds the patches listed under opts; a      *)
(* patch is [ID, RepoID, hasStat, stat]; visible is the set of             *)
(* repositories db.Repos.GetByIDs returns to the caller.                   *)
(***************************************************************************)
MaxPatches == 3

RepoIDs == {1, 2}
Stat(a, c, d) == [Added |-> a, Changed |-> c, Deleted |-> d]
ZeroStat == Stat(0, 0, 0)
PatchKinds == [RepoID : RepoIDs, hasStat : {TRUE}, stat : {Stat(1, 2, 3), Stat(4, 0, 1)}]
              \cup [RepoID : RepoIDs, hasStat : {FALSE}, stat : {ZeroStat}]

\* The patches of the store, their IDs 1, 2, ... in list order.
PatchLists ==
    {[i \in 1..Len(ks) |-> [ID |-> i, RepoID |-> ks[i].RepoID,
                            hasStat |-> ks[i].hasStat, stat |-> ks[i].stat]]
       : ks \in SeqsUpTo(PatchKinds, MaxPatches)}

\* DiffStat.AddStat: component-wise addition.
AddStat(total, s) == Stat(total.Added + s.Added, total.Changed + s.Changed,
                          total.Deleted + s.Deleted)

NoErr == [kind |-> "nil", id |-> 0]

DsInit ==
    \E ps \in PatchLists, vis \in SUBSET RepoIDs,
       fail \in {"none", "ListPatches", "GetByIDs"} :
        ds = [pc |-> "list", stored |-> ps, visible |-> vis, fail |-> fail,
              patches |-> <<>>, accessibleRepoIDs |-> {}, i |-> 0,
              total |-> ZeroStat, hasTotal |-> FALSE, err |-> NoErr]

\* Lines 44-49.
DsListStep(d) ==
    IF d.fail = "ListPatches"
    THEN [d EXCEPT !.pc = "done", !.err = [kind |-> "store", id |-> 0]]
    ELSE [d EXCEPT !.pc = "repos", !.patches = d.stored]

\* Lines 51-68.
DsReposStep(d) ==
    LET repoIDs == {d.patches[k].RepoID : k \in 1..Len(d.patches)}
    IN  IF d.fail = "GetByIDs"
        THEN [d EXCEPT !.pc = "done", !.err = [kind |-> "db", id |-> 0]]
        ELSE [d EXCEPT !.pc = "loop", !.accessibleRepoIDs = repoIDs \cap d.visible,
                       !.i = 1, !.total = ZeroStat]

\* DsLoopStep without the filter on accessible repositories.
DsLoopStepNoFilter(d) ==
    IF d.i > Len(d.patches) THEN [d EXCEPT !.pc = "done", !.hasTotal = TRUE]
    ELSE LET p == d.patches[d.i]
         IN  IF ~p.hasStat
             THEN [d EXCEPT !.pc = "done", !.err = [kind |-> "no diff stat", id |-> p.ID]]
             ELSE [d EXCEPT !.i = @ + 1, !.total = AddStat(@, p.stat)]

\* DsLoopStep that counts a missing diff stat as zero.
DsLoopStepZero(d) ==
    IF d.i > Len(d.patches) THEN [d EXCEPT !.pc = "done", !.hasTotal = TRUE]
    ELSE LET p == d.patches[d.i]
         IN  IF p.RepoID \notin d.accessibleRepoIDs THEN [d EXCEPT !.i = @ + 1]
             ELSE [d EXCEPT !.i = @ + 1, !.total = AddStat(@, p.stat)]

\* Lines 69-84: one iteration of the loop, or the return after it.
DsLoopStep(d) ==
    IF d.i > Len(d.patches) THEN [d EXCEPT !.pc = "done", !.hasTotal = TRUE]
    ELSE LET p == d.patches[d.i]
         IN  IF p.RepoID \notin d.accessibleRepoIDs THEN [d EXCEPT !.i = @ + 1]
             ELSE IF ~p.hasStat
             THEN [d EXCEPT !.pc = "done", !.err = [kind |-> "no diff stat", id |-> p.ID]]
             ELSE [d EXCEPT !.i = @ + 1, !.total = AddStat(@, p.stat)]

notDs == <<patchDiff, once, compute, bodyRuns, callerPc, callerRet,
           pgPc, pgLimit, pgCursor, pgPages, pgErr, ap, lcArgs, lcOut, rs, dflt, ext, vf>>

DsList == ds.pc = "list" /\ ds' = DsListStep(ds) /\ UNCHANGED notDs
DsRepos == ds.pc = "repos" /\ ds' = DsReposStep(ds) /\ UNCHANGED notDs
DsLoop == ds.pc = "loop" /\ ds' = DsLoopStep(ds) /\ UNCHANGED notDs

(***************************************************************************)
(* The Resolver's operations (part_003:62-380).  One call is drawn with    *)
(* its caller, its configuration and the store it runs against; the       *)
(* operation's action runs it to its return.                               *)
(***************************************************************************)
MaxID == 2

CampaignIDs == 1..MaxID
ChangesetIDs == 1..MaxID

\* An error value: its cause, and the message errors.Wrap put around it.
Err(kind) == [wrap |-> "", cause |-> kind]
Wrap(e, msg) == [wrap |-> msg, cause |-> e.cause]
NilErr == Err("nil")
ErrIDIsZero == Err("invalid node id")
ErrMustBeSiteAdmin == Err("must be site admin")
ErrNotAuthenticated == Err("not authenticated")
ErrNoResults == Err("no results")
ErrNotImplemented == Err("TODO: not implemented")

\* A graphql.ID as the operations see it: a token that decodes to a number,
\* or one that does not decode.
IDTokens == {[ok |-> FALSE, n |-> 0]} \cup {[ok |-> TRUE, n |-> k] : k \in 0..(MaxID + 1)}
UnmarshalID(tok) ==
    IF tok.ok THEN [err |-> NilErr, id |-> tok.n]
    ELSE [err |-> Err("invalid graphql id"), id |-> 0]

Users == {"anon", "user", "admin"}

\* backend.CheckCurrentUserIsSiteAdmin and allowReadAccess.
CheckCurrentUserIsSiteAdmin(user) ==
    CASE user = "admin" -> NilErr
      [] user = "user" -> ErrMustBeSiteAdmin
      [] OTHER -> ErrNotAuthenticated
AllowReadAccess(r) ==
    IF r.readAccess THEN NilErr ELSE CheckCurrentUserIsSiteAdmin(r.user)

\* The store: every campaign id is absent, open or closed; every changeset id
\* is absent, present, or present with a sync scheduled.
CampaignStores == [CampaignIDs -> {"absent", "open", "closed"}]
ChangesetStores == [ChangesetIDs -> {"absent", "present", "queued"}]
ChangesetRepo(id) == ((id - 1) % 2) + 1
CampaignAuthor(id) == IF id = 1 THEN "user" ELSE "admin"

StoreGetChangeset(r, id) ==
    CASE r.storeFail -> Err("store error")
      [] id \notin ChangesetIDs -> ErrNoResults
      [] r.changesets[id] = "absent" -> ErrNoResults
      [] OTHER -> NilErr
StoreGetCampaign(r, id) ==
    CASE r.storeFail -> Err("store error")
      [] id \notin CampaignIDs -> ErrNoResults
      [] r.campaigns[id] = "absent" -> ErrNoResults
      [] OTHER -> NilErr
\* db.Repos.Get: the authorization filter hides what the caller cannot see.
ReposGet(r, repo) ==
    CASE r.dbFail -> Err("db error")
      [] repo \notin r.visible -> Err("repo not found")
      [] OTHER -> NilErr
IsNotFound(e) == e.cause = "repo not found"

NoSpan == [opened |-> FALSE, err |-> NilErr, finished |-> FALSE]
\* trace.New, then the deferred tr.SetError(e); tr.Finish().
Traced(e) == [opened |-> TRUE, err |-> e, finished |-> TRUE]

RsCall(op, tok, user, readAccess, storeFail, visible, dbFail, cs, chs) ==
    [pc |-> "call", op |-> op, tok |-> tok, user |-> user, readAccess |-> readAccess,
     storeFail |-> storeFail, visible |-> visible, dbFail |-> dbFail,
     campaigns |-> cs, changesets |-> chs,
     result |-> "none", err |-> NilErr, span |-> NoSpan, svcCalls |-> 0]

\* The operation returns: result and error, the span as the deferred function
\* left it, and the store and the number of service calls as they are now.
RsReturn(r, result, err, span) ==
    [r EXCEPT !.pc = "returned", !.result = result, !.err = err, !.span = span]

NoCampaigns == [i \in CampaignIDs |-> "absent"]
NoChangesets == [i \in ChangesetIDs |-> "absent"]

\* graphqlbackend.ListCampaignArgs: First, State and ViewerCanAdminister, each
\* present or nil.
ListCampaignArgs ==
    [hasFirst : BOOLEAN, First : {1}, State : {Nil, "OPEN", "CLOSED", "BOGUS"},
     ViewerCanAdminister : {Nil, "true", "false"}]

\* A call of Campaigns: a call record with the arguments of the listing and
\* the options the connection is built with.
RsCampaignsCall(args, user, readAccess) ==
    [pc |-> "call", op |-> "Campaigns", tok |-> [ok |-> TRUE, n |-> 0], user |-> user,
     readAccess |-> readAccess, storeFail |-> FALSE, visible |-> {}, dbFail |-> FALSE,
     campaigns |-> NoCampaigns, changesets |-> NoChangesets,
     result |-> "none", err |-> NilErr, span |-> NoSpan, svcCalls |-> 0,
     args |-> args, opts |-> [State |-> "ANY", Limit |-> 0, OnlyForAuthor |-> 0]]

\* The calls of one operation: the caller, the configuration and the store
\* vary as far as the operation reads them.
RsCalls(op) ==
    CASE op = "ChangesetByID" ->
           {RsCall(op, tok, u, ra, sf, vis, df, NoCampaigns, chs) :
               tok \in IDTokens, u \in Users, ra \in BOOLEAN, sf \in BOOLEAN,
               vis \in SUBSET RepoIDs, df \in BOOLEAN, chs \in ChangesetStores}
      [] op = "CampaignByID" ->
           {RsCall(op, tok, u, ra, sf, {}, FALSE, cs, NoChangesets) :
               tok \in IDTokens, u \in Users, ra \in BOOLEAN, sf \in BOOLEAN,
               cs \in CampaignStores}
      [] op \in {"CreateCampaign", "ApplyCampaign", "MoveCampaign"} ->
           {RsCall(op, [ok |-> TRUE, n |-> 0], u, FALSE, FALSE, {}, FALSE, cs, NoChangesets) :
               u \in Users, cs \in CampaignStores}
      [] op \in {"CloseCampaign", "DeleteCampaign"} ->
           {RsCall(op, tok, u, FALSE, sf, {}, FALSE, cs, NoChangesets) :
               tok \in IDTokens, u \in Users, sf \in BOOLEAN, cs \in CampaignStores}
      [] op = "SyncChangeset" ->
           {RsCall(op, tok, u, FALSE, sf, {}, FALSE, NoCampaigns, chs) :
               tok \in IDTokens, u \in Users, sf \in BOOLEAN, chs \in ChangesetStores}
      [] op = "Campaigns" ->
           {RsCampaignsCall(args, u, ra) :
               args \in ListCampaignArgs, u \in Users, ra \in BOOLEAN}

RsOps == {"ChangesetByID", "CampaignByID", "CreateCampaign", "ApplyCampaign",
          "MoveCampaign", "CloseCampaign", "DeleteCampaign", "SyncChangeset",
          "Campaigns"}

RsInit == \E op \in RsOps : rs \in RsCalls(op)

\* ---- the queries (part_003:75-146)
ChangesetByIDNoAuthz(r) ==
    LET access == AllowReadAccess(r)
        dec == UnmarshalID(r.tok)
        got == StoreGetChangeset(r, dec.id)
    IN  CASE access # NilErr -> RsReturn(r, "nil", access, NoSpan)
          [] dec.err # NilErr -> RsReturn(r, "nil", dec.err, NoSpan)
          [] dec.id = 0 -> RsReturn(r, "nil", NilErr, NoSpan)
          [] got # NilErr -> RsReturn(r, "nil", IF got = ErrNoResults THEN NilErr ELSE got, NoSpan)
          [] OTHER -> RsReturn(r, "full", NilErr, NoSpan)

ChangesetByID(r) ==
    LET access == AllowReadAccess(r)
        dec == UnmarshalID(r.tok)
        got == StoreGetChangeset(r, dec.id)
        repo == ReposGet(r, ChangesetRepo(dec.id))
    IN  CASE access # NilErr -> RsReturn(r, "nil", access, NoSpan)
          [] dec.err # NilErr -> RsReturn(r, "nil", dec.err, NoSpan)
          [] dec.id = 0 -> RsReturn(r, "nil", NilErr, NoSpan)
          [] got = ErrNoResults -> RsReturn(r, "nil", NilErr, NoSpan)
          [] got # NilErr -> RsReturn(r, "nil", got, NoSpan)
          [] IsNotFound(repo) -> RsReturn(r, "hidden", NilErr, NoSpan)
          [] repo # NilErr -> RsReturn(r, "nil", repo, NoSpan)
          [] OTHER -> RsReturn(r, "full", NilErr, NoSpan)

CampaignByIDSwallow(r) ==
    LET access == AllowReadAccess(r)
        dec == UnmarshalID(r.tok)
        got == StoreGetCampaign(r, dec.id)
    IN  CASE access # NilErr -> RsReturn(r, "nil", access, NoSpan)
          [] dec.err # NilErr -> RsReturn(r, "nil", dec.err, NoSpan)
          [] dec.id = 0 -> RsReturn(r, "nil", NilErr, NoSpan)
          [] got # NilErr -> RsReturn(r, "nil", NilErr, NoSpan)
          [] OTHER -> RsReturn(r, "campaign", NilErr, NoSpan)

CampaignByID(r) ==
    LET access == AllowReadAccess(r)
        dec == UnmarshalID(r.tok)
        got == StoreGetCampaign(r, dec.id)
    IN  CASE access # NilErr -> RsReturn(r, "nil", access, NoSpan)
          [] dec.err # NilErr -> RsReturn(r, "nil", dec.err, NoSpan)
          [] dec.id = 0 -> RsReturn(r, "nil", NilErr, NoSpan)
          [] got = ErrNoResults -> RsReturn(r, "nil", NilErr, NoSpan)
          [] got # NilErr -> RsReturn(r, "nil", got, NoSpan)
          [] OTHER -> RsReturn(r, "campaign", NilErr, NoSpan)

\* parseCampaignState (part_003:382-394).
ParseCampaignState(s) ==
    CASE s = Nil -> [state |-> "ANY", err |-> NilErr]
      [] s = "OPEN" -> [state |-> "OPEN", err |-> NilErr]
      [] s = "CLOSED" -> [state |-> "CLOSED", err |-> NilErr]
      [] OTHER -> [state |-> "ANY", err |-> Err("unknown state")]

\* actor.FromContext(ctx).UID
ActorUID(user) == CASE user = "user" -> 1 [] user = "admin" -> 2 [] OTHER -> 0

\* Campaigns (part_003:250-280).  When the site-admin check fails with
\* another error than ErrMustBeSiteAdmin, the error returned is err, the nil
\* error parseCampaignState left, not authErr.
Campaigns(r) ==
    LET access == AllowReadAccess(r)
        parsed == ParseCampaignState(r.args.State)
        authErr == CheckCurrentUserIsSiteAdmin(r.user)
        isSiteAdmin == authErr # ErrMustBeSiteAdmin
        opts == [State |-> parsed.state,
                 Limit |-> IF r.args.hasFirst THEN r.args.First ELSE 0,
                 OnlyForAuthor |-> IF ~isSiteAdmin /\ r.args.ViewerCanAdminister = "true"
                                   THEN ActorUID(r.user) ELSE 0]
    IN  CASE access # NilErr -> RsReturn(r, "nil", access, NoSpan)
          [] parsed.err # NilErr -> RsReturn(r, "nil", parsed.err, NoSpan)
          [] authErr # NilErr /\ authErr # ErrMustBeSiteAdmin ->
               RsReturn(r, "nil", parsed.err, NoSpan)
          [] OTHER -> [RsReturn(r, "connection", NilErr, NoSpan) EXCEPT !.opts = opts]

\* ---- the service the mutations call (ee.Service)
\* Each returns the error, and the store as the call leaves it.
SvcAuthorized(r, author) == r.user = "admin" \/ r.user = author
SvcCloseCampaign(r, id) ==
    LET e == CASE r.storeFail -> Err("store error")
               [] id \notin CampaignIDs -> ErrNoResults
               [] r.campaigns[id] = "absent" -> ErrNoResults
               [] ~SvcAuthorized(r, CampaignAuthor(id)) -> CheckCurrentUserIsSiteAdmin(r.user)
               [] r.campaigns[id] = "closed" -> Err("campaign already closed")
               [] OTHER -> NilErr
    IN  [err |-> e,
         campaigns |-> IF e = NilErr THEN [r.campaigns EXCEPT ![id] = "closed"] ELSE r.campaigns]
SvcDeleteCampaign(r, id) ==
    LET e == CASE r.storeFail -> Err("store error")
               [] id \notin CampaignIDs -> ErrNoResults
               [] r.campaigns[id] = "absent" -> ErrNoResults
               [] ~SvcAuthorized(r, CampaignAuthor(id)) -> CheckCurrentUserIsSiteAdmin(r.user)
               [] OTHER -> NilErr
    IN  [err |-> e,
         campaigns |-> IF e = NilErr THEN [r.campaigns EXCEPT ![id] = "absent"] ELSE r.campaigns]
SvcEnqueueChangesetSync(r, id) ==
    LET e == CASE CheckCurrentUserIsSiteAdmin(r.user) # NilErr -> CheckCurrentUserIsSiteAdmin(r.user)
               [] r.storeFail -> Err("store error")
               [] id \notin ChangesetIDs -> ErrNoResults
               [] r.changesets[id] = "absent" -> ErrNoResults
               [] OTHER -> NilErr
    IN  [err |-> e,
         changesets |-> IF e = NilErr THEN [r.changesets EXCEPT ![id] = "queued"] ELSE r.changesets]

\* ---- the mutations (part_003:148-248, 331-380)
\* db.Users.GetByCurrentAuthUser: no user behind the request is an error.
GetByCurrentAuthUser(r) == IF r.user = "anon" THEN Err("no current user") ELSE NilErr

CreateCampaignNoAdminCheck(r) ==
    LET err == GetByCurrentAuthUser(r)
    IN  CASE err # NilErr -> RsReturn(r, "nil", Wrap(err, "not authenticated"), Traced(err))
          [] OTHER -> RsReturn(r, "nil", ErrNotImplemented, Traced(err))

\* The deferred function records the local variable err, which the two last
\* returns do not assign.
CreateCampaign(r) ==
    LET err == GetByCurrentAuthUser(r)
    IN  CASE err # NilErr -> RsReturn(r, "nil", Wrap(err, "not authenticated"), Traced(err))
          [] r.user # "admin" -> RsReturn(r, "nil", ErrMustBeSiteAdmin, Traced(err))
          [] OTHER -> RsReturn(r, "nil", ErrNotImplemented, Traced(err))

ApplyCampaign(r) == RsReturn(r, "nil", ErrNotImplemented, NoSpan)
MoveCampaign(r) == RsReturn(r, "nil", ErrNotImplemented, NoSpan)

DeleteCampaignNoZeroCheck(r) ==
    LET dec == UnmarshalID(r.tok)
        svc == SvcDeleteCampaign(r, dec.id)
    IN  CASE dec.err # NilErr -> RsReturn(r, "nil", dec.err, Traced(dec.err))
          [] OTHER -> [RsReturn(r, "empty", svc.err, Traced(svc.err))
                          EXCEPT !.campaigns = svc.campaigns, !.svcCalls = 1]

DeleteCampaign(r) ==
    LET dec == UnmarshalID(r.tok)
        svc == SvcDeleteCampaign(r, dec.id)
    IN  CASE dec.err # NilErr -> RsReturn(r, "nil", dec.err, Traced(dec.err))
          [] dec.id = 0 -> RsReturn(r, "nil", ErrIDIsZero, Traced(ErrIDIsZero))
          [] OTHER -> [RsReturn(r, "empty", svc.err, Traced(svc.err))
                          EXCEPT !.campaigns = svc.campaigns, !.svcCalls = 1]

CloseCampaign(r) ==
    LET dec == UnmarshalID(r.tok)
        svc == SvcCloseCampaign(r, dec.id)
        unm == Wrap(dec.err, "unmarshaling campaign id")
        cls == Wrap(svc.err, "closing campaign")
    IN  CASE dec.err # NilErr -> RsReturn(r, "nil", unm, Traced(unm))
          [] dec.id = 0 -> RsReturn(r, "nil", ErrIDIsZero, Traced(ErrIDIsZero))
          [] svc.err # NilErr -> [RsReturn(r, "nil", cls, Traced(cls)) EXCEPT !.svcCalls = 1]
          [] OTHER -> [RsReturn(r, "campaign", NilErr, Traced(NilErr))
                          EXCEPT !.campaigns = svc.campaigns, !.svcCalls = 1]

SyncChangesetZeroOk(r) ==
    LET dec == UnmarshalID(r.tok)
        svc == SvcEnqueueChangesetSync(r, dec.id)
    IN  CASE dec.err # NilErr -> RsReturn(r, "nil", dec.err, Traced(dec.err))
          [] dec.id = 0 -> RsReturn(r, "empty", NilErr, Traced(NilErr))
          [] svc.err # NilErr -> [RsReturn(r, "nil", svc.err, Traced(svc.err)) EXCEPT !.svcCalls = 1]
          [] OTHER -> [RsReturn(r, "empty", NilErr, Traced(NilErr))
                          EXCEPT !.changesets = svc.changesets, !.svcCalls = 1]

SyncChangeset(r) ==
    LET dec == UnmarshalID(r.tok)
        svc == SvcEnqueueChangesetSync(r, dec.id)
    IN  CASE dec.err # NilErr -> RsReturn(r, "nil", dec.err, Traced(dec.err))
          [] dec.id = 0 -> RsReturn(r, "nil", ErrIDIsZero, Traced(ErrIDIsZero))
          [] svc.err # NilErr -> [RsReturn(r, "nil", svc.err, Traced(svc.err)) EXCEPT !.svcCalls = 1]
          [] OTHER -> [RsReturn(r, "empty", NilErr, Traced(NilErr))
                          EXCEPT !.changesets = svc.changesets, !.svcCalls = 1]

notRs == <<patchDiff, once, compute, bodyRuns, callerPc, callerRet,
           pgPc, pgLimit, pgCursor, pgPages, pgErr, ap, lcArgs, lcOut, ds, dflt, ext, vf>>

RsCalled(op) == rs.pc = "call" /\ rs.op = op
RsChangesetByID == RsCalled("ChangesetByID") /\ rs' = ChangesetByID(rs) /\ UNCHANGED notRs
RsCampaignByID == RsCalled("CampaignByID") /\ rs' = CampaignByID(rs) /\ UNCHANGED notRs
RsCreateCampaign == RsCalled("CreateCampaign") /\ rs' = CreateCampaign(rs) /\ UNCHANGED notRs
RsApplyCampaign == RsCalled("ApplyCampaign") /\ rs' = ApplyCampaign(rs) /\ UNCHANGED notRs
RsMoveCampaign == RsCalled("MoveCampaign") /\ rs' = MoveCampaign(rs) /\ UNCHANGED notRs
RsCloseCampaign == RsCalled("CloseCampaign") /\ rs' = CloseCampaign(rs) /\ UNCHANGED notRs
RsDeleteCampaign == RsCalled("DeleteCampaign") /\ rs' = DeleteCampaign(rs) /\ UNCHANGED notRs
RsSyncChangeset == RsCalled("SyncChangeset") /\ rs' = SyncChangeset(rs) /\ UNCHANGED notRs
RsCampaigns == RsCalled("Campaigns") /\ rs' = Campaigns(rs) /\ UNCHANGED notRs

(***************************************************************************)
(* defaultCampaignsResolver, the resolver of a build without the           *)
(* enterprise code (part_001:236-289).                                     *)
(***************************************************************************)
CampaignsOnlyInEnterprise ==
    Err("campaigns and changesets are only available in enterprise")

DefaultMutations == {"CreateCampaign", "ApplyCampaign", "CreateChangesetSpec",
                     "CreateCampaignSpec", "ComputeCampaignDelta", "MoveCampaign",
                     "CloseCampaign", "SyncChangeset", "DeleteCampaign"}
DefaultQueries == {"CampaignByID", "Campaigns", "ChangesetByID"}
DefaultOps == DefaultMutations \cup DefaultQueries

DefaultReturn(result, err) == [result |-> result, err |-> err]

DefaultCampaignsResolverLeaky(op, arg) ==
    IF op = "Campaigns" THEN DefaultReturn("connection", NilErr)
    ELSE DefaultReturn("nil", CampaignsOnlyInEnterprise)

\* What each method returns for its argument.
DefaultCampaignsResolver(op, arg) ==
    CASE op = "CreateCampaign" -> DefaultReturn("nil", CampaignsOnlyInEnterprise)
      [] op = "ApplyCampaign" -> DefaultReturn("nil", CampaignsOnlyInEnterprise)
      [] op = "CreateChangesetSpec" -> DefaultReturn("nil", CampaignsOnlyInEnterprise)
      [] op = "CreateCampaignSpec" -> DefaultReturn("nil", CampaignsOnlyInEnterprise)
      [] op = "ComputeCampaignDelta" -> DefaultReturn("nil", CampaignsOnlyInEnterprise)
      [] op = "MoveCampaign" -> DefaultReturn("nil", CampaignsOnlyInEnterprise)
      [] op = "CloseCampaign" -> DefaultReturn("nil", CampaignsOnlyInEnterprise)
      [] op = "SyncChangeset" -> DefaultReturn("nil", CampaignsOnlyInEnterprise)
      [] op = "DeleteCampaign" -> DefaultReturn("nil", CampaignsOnlyInEnterprise)
      [] op = "CampaignByID" -> DefaultReturn("nil", CampaignsOnlyInEnterprise)
      [] op = "Campaigns" -> DefaultReturn("nil", CampaignsOnlyInEnterprise)
      [] op = "ChangesetByID" -> DefaultReturn("nil", CampaignsOnlyInEnterprise)

DfltInit ==
    dflt \in [pc : {"call"}, op : DefaultOps, arg : IDTokens, user : Users,
              result : {"none"}, err : {NilErr}]

notDflt == <<patchDiff, once, compute, bodyRuns, callerPc, callerRet,
             pgPc, pgLimit, pgCursor, pgPages, pgErr, ap, lcArgs, lcOut, ds, rs, ext, vf>>

DfltCall(op) ==
    /\ dflt.pc = "call" /\ dflt.op = op
    /\ dflt' = [dflt EXCEPT !.pc = "returned",
                            !.result = DefaultCampaignsResolver(op, dflt.arg).result,
                            !.err = DefaultCampaignsResolver(op, dflt.arg).err]
    /\ UNCHANGED notDflt
DfltMutation == \E op \in DefaultMutations : DfltCall(op)
DfltQuery == \E op \in DefaultQueries : DfltCall(op)

(***************************************************************************)
(* The extension host's query transformers (part_002:70-129, 174-181,      *)
(* 233-256): state.queryTransformers, the ReplaySubject that announces its *)
(* changes, the handles registerQueryTransformer returned, and one         *)
(* subscriber of transformSearchQuery(query).  Transformers return their   *)
(* result synchronously.                                                   *)
(***************************************************************************)
MaxRegistrations == 3

QueryTransformers == {"t1", "t2"}
Queries == {<<"a">>, <<"a", "b">>}

\* transformer.transformQuery(query): each transformer appends its own mark.
TransformQuery(t, query) == query \o <<IF t = "t1" THEN "!" ELSE "?">>

\* transformers.reduce(..., of(query)): the query through every transformer
\* of the array, first to last.
RECURSIVE TransformAll(_, _)
TransformAll(transformers, query) ==
    IF transformers = <<>> THEN query
    ELSE TransformAll(Tail(transformers), TransformQuery(Head(transformers), query))

ExtInit ==
    ext = [pc |-> "on",
           queryTransformers |-> <<>>,
           replay |-> <<>>,
           handles |-> <<>>,
           sub |-> [active |-> FALSE, query |-> <<>>, received |-> <<>>],
           hoverProviders |-> <<>>,
           hoverChanges |-> <<>>,
           hoverHandles |-> <<>>]

\* notify.next(array) on queryTransformersChanges: the subject keeps the
\* array for later subscribers, and switchMap hands the subscriber the query
\* transformed by that array.
ExtNotify(e, array) ==
    [e EXCEPT !.replay = array,
              !.sub.received = IF e.sub.active
                               THEN Append(@, TransformAll(array, e.sub.query))
                               ELSE @]

\* addElementWithRollback(value, ...): the registration.
AddElement(e, value) ==
    LET modifiedArray == e.queryTransformers \o <<value>>
        set == [e EXCEPT !.queryTransformers = modifiedArray,
                         !.handles = Append(@, [value |-> value,
                                                modifiedArray |-> modifiedArray,
                                                unsubscribed |-> FALSE])]
    IN  ExtNotify(set, modifiedArray)

\* The unsubscribe of the handle addElementWithRollback returned: the state
\* is set to the handle's modifiedArray, and filtered is announced.
Rollback(e, i) ==
    LET h == e.handles[i]
        filtered == SelectSeq(e.queryTransformers, LAMBDA t : t # h.value)
        set == [e EXCEPT !.queryTransformers = h.modifiedArray,
                         !.handles[i].unsubscribed = TRUE]
    IN  ExtNotify(set, filtered)

\* transformSearchQuery(query).subscribe(...): the ReplaySubject replays the
\* last array it was given.
SubscribeTransform(e, query) ==
    [e EXCEPT !.sub = [active |-> TRUE, query |-> query,
                       received |-> <<TransformAll(e.replay, query)>>]]

\* addElementWithRollback({provider, selector}, ...) of registerHoverProvider:
\* the value is an object made by the call, so no two registrations share it;
\* hoverProvidersChanges is a BehaviorSubject and holds the last array.
AddHoverElement(e, value) ==
    LET modifiedArray == e.hoverProviders \o <<value>>
    IN  [e EXCEPT !.hoverProviders = modifiedArray,
                  !.hoverHandles = Append(@, [value |-> value,
                                              modifiedArray |-> modifiedArray,
                                              unsubscribed |-> FALSE]),
                  !.hoverChanges = modifiedArray]

\* The unsubscribe of a handle registerHoverProvider returned.
RollbackHover(e, i) ==
    LET h == e.hoverHandles[i]
        filtered == SelectSeq(e.hoverProviders, LAMBDA t : t # h.value)
    IN  [e EXCEPT !.hoverProviders = h.modifiedArray,
                  !.hoverHandles[i].unsubscribed = TRUE,
                  !.hoverChanges = filtered]

\* Registrations made so far, of either kind.
ExtRegistrations(e) == Len(e.handles) + Len(e.hoverHandles)

notExt == <<patchDiff, once, compute, bodyRuns, callerPc, callerRet,
            pgPc, pgLimit, pgCursor, pgPages, pgErr, ap, lcArgs, lcOut, ds, rs, dflt, vf>>

RegisterQueryTransformer ==
    /\ ext.pc = "on" /\ ExtRegistrations(ext) < MaxRegistrations
    /\ \E t \in QueryTransformers : ext' = AddElement(ext, t)
    /\ UNCHANGED notExt
UnsubscribeQueryTransformer ==
    /\ ext.pc = "on"
    /\ \E i \in 1..Len(ext.handles) :
          /\ ~ext.handles[i].unsubscribed
          /\ ext' = Rollback(ext, i)
    /\ UNCHANGED notExt
RegisterHoverProvider ==
    /\ ext.pc = "on" /\ ExtRegistrations(ext) < MaxRegistrations
    /\ ext' = AddHoverElement(ext, Len(ext.hoverHandles) + 1)
    /\ UNCHANGED notExt
UnsubscribeHoverProvider ==
    /\ ext.pc = "on"
    /\ \E i \in 1..Len(ext.hoverHandles) :
          /\ ~ext.hoverHandles[i].unsubscribed
          /\ ext' = RollbackHover(ext, i)
    /\ UNCHANGED notExt
TransformSearchQuery ==
    /\ ext.pc = "on" /\ ~ext.sub.active
    /\ \E query \in Queries : ext' = SubscribeTransform(ext, query)
    /\ UNCHANGED notExt

(***************************************************************************)
(* fileDiffVirtualFileContent (patch_sets.go:148-168): the memoized        *)
(* content of the new file, computed once from the old file's content.     *)
(***************************************************************************)
\* applyPatch run from its first statement to its return or its panic.
ApStep(a) ==
    CASE a.pc = "start" -> ApStartStep(a)
      [] a.pc = "hunk" -> ApHunkStep(a)
      [] a.pc = "line" -> ApLineStep(a)
      [] a.pc = "rest" -> ApRestStep(a)
RECURSIVE ApRun(_)
ApRun(a) == IF a.pc \in {"done", "panic"} THEN a ELSE ApRun(ApStep(a))
ApplyPatch(fileContent, hunks) ==
    ApRun([pc |-> "start", fileContent |-> fileContent, hunks |-> hunks,
           contentLines |-> <<>>, newContentLines |-> <<>>, lastLine |-> 0,
           hunkIdx |-> 0, hunkLines |-> <<>>, lineIdx |-> 0, result |-> <<>>])

\* r.OldFile(): none (the diff adds the file), a file whose Content succeeds,
\* a file whose Content fails.
VfOldFiles ==
    {[kind |-> "nil", content |-> <<>>], [kind |-> "fails", content |-> <<>>]}
    \cup {[kind |-> "ok", content |-> fc] : fc \in {<<>>, <<"a">>, <<"a", NL, "b">>}}
\* r.FileDiff.Hunks; the last one names a line the short contents do not have.
VfHunkLists ==
    {<<>>,
     <<[OrigStartLine |-> 0, Body |-> <<"+", "c", NL>>]>>,
     <<[OrigStartLine |-> 1, Body |-> <<"-", "a", NL, "+", "c", NL>>]>>,
     <<[OrigStartLine |-> 3, Body |-> <<"+", "c", NL>>]>>}

VfInit ==
    \E old \in VfOldFiles, hunks \in VfHunkLists :
        vf = [pc |-> "on", oldFile |-> old, hunks |-> hunks,
              once |-> "idle", newContent |-> <<>>, err |-> "nil",
              callerPc |-> [p \in Callers |-> "idle"],
              callerRet |-> [p \in Callers |-> [content |-> <<>>, err |-> "none"]]]

\* The function given to once.Do.  The err it assigns when Content fails is
\* the one declared inside the if block; the closure's err is not assigned.
VfBodyStep(v) ==
    LET patched == ApplyPatch(v.oldFile.content, v.hunks)
    IN  CASE v.oldFile.kind = "fails" -> [v EXCEPT !.once = "done"]
          [] patched.pc = "panic" -> [v EXCEPT !.once = "done", !.pc = "panic"]
          [] OTHER -> [v EXCEPT !.once = "done", !.newContent = patched.result]

notVf == <<patchDiff, once, compute, bodyRuns, callerPc, callerRet,
           pgPc, pgLimit, pgCursor, pgPages, pgErr, ap, lcArgs, lcOut, ds, rs, dflt, ext>>

\* A caller calls the returned function and reaches once.Do.
VfCall(p) ==
    /\ vf.pc = "on" /\ vf.callerPc[p] = "idle"
    /\ vf' = CASE vf.once = "idle" -> [vf EXCEPT !.once = "running", !.callerPc[p] = "body"]
               [] vf.once = "running" -> [vf EXCEPT !.callerPc[p] = "blocked"]
               [] OTHER -> [vf EXCEPT !.callerPc[p] = "return"]
    /\ UNCHANGED notVf
\* The first caller runs the function; a panic in it unwinds that caller.
VfBody(p) ==
    /\ vf.pc = "on" /\ vf.callerPc[p] = "body"
    /\ vf' = [VfBodyStep(vf) EXCEPT !.callerPc[p] =
                 IF VfBodyStep(vf).pc = "panic" THEN "panicked" ELSE "return", !.pc = "on"]
    /\ UNCHANGED notVf
\* once.Do returns to a caller that waited for the first one.
VfUnblock(p) ==
    /\ vf.pc = "on" /\ vf.callerPc[p] = "blocked" /\ vf.once = "done"
    /\ vf' = [vf EXCEPT !.callerPc[p] = "return"]
    /\ UNCHANGED notVf
\* return newContent, err
VfReturn(p) ==
    /\ vf.pc = "on" /\ vf.callerPc[p] = "return"
    /\ vf' = [vf EXCEPT !.callerPc[p] = "returned",
                        !.callerRet[p] = [content |-> vf.newContent, err |-> vf.err]]
    /\ UNCHANGED notVf

(***************************************************************************)
(* Parts of the state a specification leaves alone.                        *)
(***************************************************************************)
PageOff ==
    /\ once = "idle"
    /\ compute = ComputeInit
    /\ bodyRuns = 0
    /\ callerPc = [p \in Callers |-> "idle"]
    /\ callerRet = [p \in Callers |-> NoRet]

ApOff == ap = [pc |-> "off"]
LcOff == lcArgs = [isNil |-> TRUE] /\ lcOut = [pc |-> "off"]
DsOff == ds = [pc |-> "off"]
RsOff == rs = [pc |-> "off"]
DfltOff == dflt = [pc |-> "off"]
ExtOff == ext = [pc |-> "off"]
VfOff == vf = [pc |-> "off"]
RestOff == RsOff /\ DfltOff /\ ExtOff /\ VfOff

(***************************************************************************)
(* Specifications.                                                         *)
(***************************************************************************)
InitPage == PageInit /\ PagingOff /\ ApOff /\ LcOff /\ DsOff /\ RestOff

NextPage == \E p \in Callers : Call(p) \/ Body(p) \/ Unblock(p) \/ Return(p)

SpecPage == InitPage /\ [][NextPage]_vars

InitPaging == patchDiff \in Blobs /\ PageOff /\ PagingInit /\ ApOff /\ LcOff /\ DsOff /\ RestOff

NextPaging == PageRequest

SpecPaging == InitPaging /\ [][NextPaging]_vars

PatchDiffOff == patchDiff = <<>>

InitApply == PatchDiffOff /\ PageOff /\ PagingOff /\ ApInit /\ LcOff /\ DsOff /\ RestOff

NextApply == ApStart \/ ApHunk \/ ApLine \/ ApRest

SpecApply == InitApply /\ [][NextApply]_vars

InitOpts == PatchDiffOff /\ PageOff /\ PagingOff /\ ApOff /\ LcInit /\ DsOff /\ RestOff

NextOpts == LcCall

SpecOpts == InitOpts /\ [][NextOpts]_vars

InitStat == PatchDiffOff /\ PageOff /\ PagingOff /\ ApOff /\ LcOff /\ DsInit /\ RestOff

NextStat == DsList \/ DsRepos \/ DsLoop

SpecStat == InitStat /\ [][NextStat]_vars

InitResolver == PatchDiffOff /\ PageOff /\ PagingOff /\ ApOff /\ LcOff /\ DsOff
                /\ RsInit /\ DfltOff /\ ExtOff /\ VfOff

NextResolver ==
    \/ RsChangesetByID \/ RsCampaignByID
    \/ RsCreateCampaign \/ RsApplyCampaign \/ RsMoveCampaign
    \/ RsCloseCampaign \/ RsDeleteCampaign \/ RsSyncChangeset
    \/ RsCampaigns

SpecResolver == InitResolver /\ [][NextResolver]_vars

InitDefault == PatchDiffOff /\ PageOff /\ PagingOff /\ ApOff /\ LcOff /\ DsOff
               /\ RsOff /\ DfltInit /\ ExtOff /\ VfOff

NextDefault == DfltMutation \/ DfltQuery

SpecDefault == InitDefault /\ [][NextDefault]_vars

InitExt == PatchDiffOff /\ PageOff /\ PagingOff /\ ApOff /\ LcOff /\ DsOff
           /\ RsOff /\ DfltOff /\ ExtInit /\ VfOff

NextExt ==
    \/ RegisterQueryTransformer \/ UnsubscribeQueryTransformer \/ TransformSearchQuery
    \/ RegisterHoverProvider \/ UnsubscribeHoverProvider

SpecExt == InitExt /\ [][NextExt]_vars

InitVirtual == PatchDiffOff /\ PageOff /\ PagingOff /\ ApOff /\ LcOff /\ DsOff
               /\ RsOff /\ DfltOff /\ ExtOff /\ VfInit

NextVirtual == \E p \in Callers : VfCall(p) \/ VfBody(p) \/ VfUnblock(p) \/ VfReturn(p)

SpecVirtual == InitVirtual /\ [][NextVirtual]_vars

(***************************************************************************)
(* Claims about fileDiffConnectionCompute.                                 *)
(***************************************************************************)
Returned(p) == callerPc[p] = "returned"

\* The cursor a request names: 0 when After is absent.
CursorGiven(args) == IF args.hasAfter THEN ParseInt(args.After).val ELSE 0
CursorValid(args) == ~args.hasAfter \/ (ParseInt(args.After).ok /\ ParseInt(args.After).val >= 0)
CursorBad(args) == args.hasAfter /\ (~ParseInt(args.After).ok \/ ParseInt(args.After).val < 0)

\* Positions c up to (excluding) min(c+l, n) of the blob.
Window(blob, c, l) ==
    IF c >= Len(blob) \/ l <= 0 THEN <<>>
    ELSE SubSeq(blob, c + 1, IF l >= Len(blob) THEN Len(blob) ELSE Min(c + l, Len(blob)))

\* C1: the function given to once.Do is started at most once for one returned
\* compute function, however many callers call it and whatever args they pass.
C1_BodyRunsAtMostOnce == bodyRuns <= 1

\* One caller is inside the body while another, which called concurrently,
\* is held in once.Do.
C1_Witness ==
    \E p, q \in Callers : callerPc[p] = "body" /\ callerPc[q] = "blocked" /\ bodyRuns = 1

\* C2: every call that has returned got the outcome of the first call's
\* computation (its file diffs, afterIdx, hasNextPage and error), so all
\* returned calls agree and none succeeds where another got the parse error.
C2_SameOutcome ==
    \A p \in Callers : Returned(p) =>
        /\ once = "done"
        /\ callerRet[p] = ComputeOnce(patchDiff, compute.args)
        /\ \A q \in Callers : Returned(q) => callerRet[q] = callerRet[p]

\* Two calls have returned the cached parse error.
C2_Witness ==
    \E p, q \in Callers : /\ p # q /\ Returned(p) /\ Returned(q)
                          /\ callerRet[p].err = "parse" /\ callerRet[q].err = "parse"

\* C3 as claimed: a request with cursor c >= 0 and limit l on a blob of n file
\* diffs returns exactly the file diffs at positions c up to min(c+l, n).
C3_ReturnsWindow ==
    \A p \in Callers :
        (/\ Returned(p) /\ WellFormed(patchDiff)
         /\ compute.args.hasFirst /\ compute.args.First >= 0
         /\ CursorValid(compute.args))
        => callerRet[p].fileDiffs
             = Window(patchDiff, CursorGiven(compute.args), compute.args.First)

\* C3 amended: with t = c + l in int32, the call returns the file diffs at
\* positions 0 up to min(t, n) when t >= 1 and all n when t < 1, afterIdx is
\* the request's cursor c, hasNextPage is t >= 1 and n > t, and err is nil.
C3_ReturnsPrefix ==
    \A p \in Callers :
        (/\ Returned(p) /\ WellFormed(patchDiff)
         /\ compute.args.hasFirst /\ CursorValid(compute.args))
        => LET c == CursorGiven(compute.args)
               t == Int32Add(c, compute.args.First)
               n == Len(patchDiff)
           IN  /\ callerRet[p].fileDiffs
                    = IF t >= 1 THEN SubSeq(patchDiff, 1, Min(t, n)) ELSE patchDiff
               /\ callerRet[p].afterIdx = c
               /\ callerRet[p].hasNextPage = (t >= 1 /\ n > t)
               /\ callerRet[p].err = "nil"

\* Cursor 1 and limit 1 on three file diffs: two file diffs come back.
C3_Witness ==
    \E p \in Callers :
        /\ Returned(p) /\ WellFormed(patchDiff) /\ Len(patchDiff) = 3
        /\ compute.args.hasFirst /\ compute.args.First = 1
        /\ compute.args.hasAfter /\ compute.args.After = <<"1">>
        /\ Len(callerRet[p].fileDiffs) = 2 /\ callerRet[p].hasNextPage

\* C5: a request whose cursor is negative or does not parse returns what the
\* request with the same limit and cursor "0" returns, and no error.
C5_BadCursorLikeZero ==
    \A p \in Callers :
        (Returned(p) /\ CursorBad(compute.args))
        => /\ callerRet[p] = ComputeOnce(patchDiff, [compute.args EXCEPT !.After = <<"0">>])
           /\ callerRet[p].afterIdx = 0

\* C4: with a limit N >= 1, the pages requested from cursor 0 on until
\* hasNextPage is false, concatenated in order, are the file diffs of one
\* request with no limit on the same patch (and the paging ends in the parse
\* error exactly when that request does); while paging, the pages so far are
\* the first min(cursor, n) file diffs of the blob.
C4_PagesConcatenate ==
    LET whole == ComputeOnce(patchDiff, NoArgs)
    IN  /\ pgPc = "done" => /\ pgErr = whole.err
                            /\ pgErr = "nil" => pgPages = whole.fileDiffs
        /\ (pgPc = "request" /\ WellFormed(patchDiff))
             => pgPages = SubSeq(patchDiff, 1, Min(pgCursor, Len(patchDiff)))

\* Two or more pages were needed, and the paging is over.
C4_Witness ==
    /\ pgPc = "done" /\ pgErr = "nil"
    /\ pgCursor >= pgLimit /\ pgCursor > 0
    /\ Len(pgPages) = MaxFiles

\* The request of the running or finished computation has a limit of at
\* least 1 and a cursor that parses to a number >= 0 (or none), and every
\* record of the blob is a well-formed file diff.
LimitedRequest ==
    /\ compute.pc # "idle" /\ compute.pc # "cursor"
    /\ compute.args.hasFirst /\ compute.args.First >= 1
    /\ CursorValid(compute.args) /\ WellFormed(patchDiff)

\* C19: for a request with limit l >= 1 on a blob of n well-formed file
\* diffs, the computation calls ReadFile at most cursor+l+1 times, and when it
\* has finished hasNextPage is true exactly when n > cursor+l.  (The sums are
\* those of the integers, written as differences so that no term exceeds 32
\* bits.)
C19_ReadsBoundedByPage ==
    LimitedRequest =>
        /\ compute.reads - 1 - compute.args.First <= CursorGiven(compute.args)
        /\ compute.pc = "done" =>
               (compute.hasNextPage <=>
                    Len(patchDiff) - compute.args.First > CursorGiven(compute.args))

C19_Witness ==
    /\ LimitedRequest /\ compute.pc = "done" /\ Len(patchDiff) = 3
    /\ compute.args.hasAfter /\ CursorGiven(compute.args) = 1 /\ compute.args.First = 1
    /\ compute.hasNextPage /\ compute.reads = 3

\* C26: a request with no limit (First absent) on a blob of well-formed file
\* diffs reads every file diff of the blob and reports hasNextPage = FALSE,
\* whatever the cursor is, a cursor above 0 included.
C26_NoLimitReadsAll ==
    (/\ compute.pc = "done" /\ ~compute.args.hasFirst
     /\ CursorValid(compute.args) /\ WellFormed(patchDiff)) =>
        /\ Len(compute.fileDiffs) = Len(patchDiff)
        /\ ~compute.hasNextPage

(***************************************************************************)
(* Claims about applyPatch.                                                *)
(***************************************************************************)
\* C6: when the last hunk of a diff with at least one hunk has been processed,
\* every base line from the original-line cursor to the end of the base is
\* appended verbatim: the result is the output so far followed by those lines
\* (stated for remaining lines of which one at least is not empty, so that a
\* line left out shows in the result).
C6_RemainingAppended ==
    [][(/\ ap.pc = "rest" /\ ap'.pc = "done" /\ Len(ap.hunks) >= 1
        /\ \E i \in ap.lastLine..Len(ap.contentLines) : ap.contentLines[i] # <<>>)
         => ap'.result = Join(ap.newContentLines
                              \o SubSeq(ap.contentLines, ap.lastLine, Len(ap.contentLines)))]_vars

\* C7: with hunks in ascending order, the hole before a hunk copies the base
\* lines from the cursor up to the hunk's original start line; in a hunk a
\* '-' line advances the cursor by one and emits nothing, a '+' line emits its
\* content without the marker and leaves the cursor, a context line emits the
\* base line at the cursor and advances the cursor by one; and the two-hunk
\* example on the 12-line base yields lines 1-2, the replacement, lines
\* 4-10, the second hunk's content, and nothing more.
C7_HunkSemantics ==
    [][/\ (ap.pc = "hunk" /\ ap'.pc = "line")
            => LET start == ap.hunks[ap.hunkIdx].OrigStartLine
               IN  (start # 0 /\ start >= ap.lastLine)
                     => /\ ap'.newContentLines
                             = ap.newContentLines
                               \o SubSeq(ap.contentLines, ap.lastLine, start - 1)
                        /\ ap'.lastLine = start
       /\ (ap.pc = "line" /\ ap'.pc = "line" /\ ap.lineIdx <= Len(ap.hunkLines))
            => LET line == ap.hunkLines[ap.lineIdx]
               IN  /\ HasPrefix(line, "-")
                        => /\ ap'.lastLine = ap.lastLine + 1
                           /\ ap'.newContentLines = ap.newContentLines
                   /\ HasPrefix(line, "+")
                        => /\ ap'.lastLine = ap.lastLine
                           /\ ap'.newContentLines = Append(ap.newContentLines, Tail(line))
                   /\ HasPrefix(line, " ")
                        => /\ ap'.lastLine = ap.lastLine + 1
                           /\ ap'.newContentLines
                                = Append(ap.newContentLines, ap.contentLines[ap.lastLine])
       /\ (ap.fileContent = ExampleContent /\ ap.hunks = ExampleHunks /\ ap'.pc = "done")
            => ap'.result
                 = Join(<<<<"1">>, <<"2">>, <<"R">>, <<"4">>, <<"5">>, <<"6">>, <<"7">>,
                          <<"8">>, <<"9">>, <<"x">>, <<"N">>, <<"y">>, <<"z">>>>)
      ]_vars

\* The example has been applied.
C7_Witness ==
    /\ ap.pc = "done" /\ ap.fileContent = ExampleContent /\ ap.hunks = ExampleHunks
    /\ Len(ap.newContentLines) = 13

\* C23: applyPatch with a file diff that has no hunks returns the base content
\* unchanged, whatever the base content: the empty string and a single line
\* without a trailing newline included.
C23_NoHunksIsIdentity ==
    (ap.pc = "done" /\ ap.hunks = <<>>) => ap.result = ap.fileContent

LcInvalidEnum ==
    /\ ~lcArgs.isNil
    /\ \/ (lcArgs.State # Nil /\ lcArgs.State \notin ValidChangesetStates)
       \/ (lcArgs.ReviewState # Nil /\ lcArgs.ReviewState \notin ValidReviewStates)
       \/ (lcArgs.CheckState # Nil /\ lcArgs.CheckState \notin ValidCheckStates)

\* C20: listChangesetOptsFromArgs returns a validation error and optsSafe =
\* false whenever State, ReviewState or CheckState is present and not in its
\* valid set, and returns no error when every present enum value is valid.
C20_InvalidEnumIsError ==
    lcOut.pc = "returned" =>
        /\ LcInvalidEnum =>
               /\ lcOut.err \in {"changeset state not valid",
                                 "changeset review state not valid",
                                 "changeset check state not valid"}
               /\ ~lcOut.optsSafe
        /\ ~LcInvalidEnum => lcOut.err = "nil"

C20_Witness ==
    /\ lcOut.pc = "returned" /\ ~lcArgs.isNil
    /\ lcArgs.State \in ValidChangesetStates /\ lcArgs.ReviewState = Nil
    /\ lcArgs.CheckState = "BOGUS"
    /\ lcOut.err = "changeset check state not valid" /\ ~lcOut.optsSafe

(***************************************************************************)
(* Claims about patchSetDiffStat.                                          *)
(***************************************************************************)
RECURSIVE SumStats(_, _)
\* The component-wise sum of the stats of the patches whose repository is in repos.
SumStats(ps, repos) ==
    IF ps = <<>> THEN ZeroStat
    ELSE LET rest == SumStats(Tail(ps), repos)
         IN  IF Head(ps).RepoID \in repos THEN AddStat(rest, Head(ps).stat) ELSE rest

DsSucceeded == ds.pc = "done" /\ ds.err = NoErr

\* C9: when patchSetDiffStat succeeds, its total is the component-wise sum of
\* the diff stats of exactly the listed patches whose repository is
\* accessible to the caller: (0,0,0) when none is.
C9_SumOfAccessible ==
    DsSucceeded => /\ ds.hasTotal
                   /\ ds.total = SumStats(ds.stored, ds.visible)

\* A success where an accessible patch counted and an inaccessible one did not.
C9_Witness ==
    /\ DsSucceeded /\ ds.total # ZeroStat
    /\ \E k \in 1..Len(ds.stored) : ds.stored[k].RepoID \notin ds.visible /\ ds.stored[k].hasStat

\* C10: when the store and the repository lookup succeed, patchSetDiffStat
\* returns an error and no total exactly when some patch of an accessible
\* repository has no diff stat; a patch of an inaccessible repository that
\* lacks one causes no error.
C10_MissingStatIsError ==
    (ds.pc = "done" /\ ds.fail = "none")
    => LET missing == {k \in 1..Len(ds.stored) :
                          ds.stored[k].RepoID \in ds.visible /\ ~ds.stored[k].hasStat}
       IN  /\ (missing # {}) = (ds.err.kind = "no diff stat")
           /\ missing # {} => ~ds.hasTotal /\ ds.err.id \in missing
           /\ missing = {} => ds.err = NoErr /\ ds.hasTotal

\* The error, on a patch list that also holds a patch without a diff stat in
\* an inaccessible repository.
C10_Witness ==
    /\ ds.pc = "done" /\ ds.err.kind = "no diff stat"
    /\ \E k \in 1..Len(ds.stored) : ds.stored[k].RepoID \notin ds.visible /\ ~ds.stored[k].hasStat

(***************************************************************************)
(* Claims about the Resolver's operations.                                 *)
(***************************************************************************)
RsReturned(op) == rs.pc = "returned" /\ rs.op = op
\* The call passed the read-access check and its token decoded to the id of
\* a record the store holds and could read.
RsReadAllowed == rs.readAccess \/ rs.user = "admin"
RsChangesetFound ==
    /\ RsReadAllowed /\ rs.tok.ok /\ ~rs.storeFail
    /\ rs.tok.n \in ChangesetIDs /\ rs.changesets[rs.tok.n] # "absent"
RsRepoVisible == ChangesetRepo(rs.tok.n) \in rs.visible

\* C11: ChangesetByID returns the full changeset variant only when the
\* repository lookup under the caller's authorization succeeds; when that
\* lookup reports not-found it returns the hidden variant without error, and
\* when it fails otherwise it returns that error and no changeset.
C11_FullOnlyWhenRepoVisible ==
    RsReturned("ChangesetByID") =>
        /\ rs.result = "full" => (RsChangesetFound /\ ~rs.dbFail /\ RsRepoVisible)
        /\ (RsChangesetFound /\ ~rs.dbFail /\ RsRepoVisible) =>
               (rs.result = "full" /\ rs.err = NilErr)
        /\ (RsChangesetFound /\ ~rs.dbFail /\ ~RsRepoVisible) =>
               (rs.result = "hidden" /\ rs.err = NilErr)
        /\ (RsChangesetFound /\ rs.dbFail) =>
               (rs.result = "nil" /\ rs.err = Err("db error"))

C11_Witness ==
    /\ RsReturned("ChangesetByID") /\ rs.result = "hidden"
    /\ rs.user = "user" /\ ~RsRepoVisible /\ rs.visible # {}

\* The store holds no record under the id the token decodes to.
RsNoRecord ==
    IF rs.op = "CampaignByID"
    THEN rs.tok.n \notin CampaignIDs \/ rs.campaigns[rs.tok.n] = "absent"
    ELSE rs.tok.n \notin ChangesetIDs \/ rs.changesets[rs.tok.n] = "absent"

\* C12: with read access granted, ChangesetByID and CampaignByID return an
\* empty result and no error when the id decodes to 0 or when the store
\* reports that there are no results; any other error of the store is
\* returned as an error, with no result.
C12_AbsentIsEmptyNotError ==
    ((RsReturned("ChangesetByID") \/ RsReturned("CampaignByID")) /\ RsReadAllowed /\ rs.tok.ok) =>
        /\ rs.tok.n = 0 => (rs.result = "nil" /\ rs.err = NilErr)
        /\ (rs.tok.n # 0 /\ ~rs.storeFail /\ RsNoRecord) => (rs.result = "nil" /\ rs.err = NilErr)
        /\ (rs.tok.n # 0 /\ rs.storeFail) => (rs.result = "nil" /\ rs.err = Err("store error"))

C12_Witness ==
    /\ RsReturned("CampaignByID") /\ rs.user = "user" /\ rs.readAccess /\ rs.tok.ok
    /\ rs.tok.n = 2 /\ rs.campaigns[2] = "absent" /\ rs.campaigns[1] = "open"
    /\ ~rs.storeFail /\ rs.result = "nil" /\ rs.err = NilErr

\* A step that runs the called operation op to its return.
RsRuns(op) == rs.pc = "call" /\ rs.op = op /\ rs'.pc = "returned"
RsStoreUnchanged == rs'.campaigns = rs.campaigns /\ rs'.changesets = rs.changesets

\* C13: CreateCampaign called by an authenticated user who is not a site
\* admin fails with the must-be-site-admin error, returns no campaign and
\* writes nothing to the store.
C13_NonAdminCannotCreate ==
    [][(RsRuns("CreateCampaign") /\ rs.user = "user") =>
          /\ rs'.err = ErrMustBeSiteAdmin /\ rs'.result = "nil"
          /\ RsStoreUnchanged /\ rs'.svcCalls = 0]_vars

C13_Witness ==
    /\ RsReturned("CreateCampaign") /\ rs.user = "user" /\ rs.err = ErrMustBeSiteAdmin
    /\ rs.campaigns[1] = "open"

MutatingOps == {"CreateCampaign", "ApplyCampaign", "MoveCampaign",
                "CloseCampaign", "DeleteCampaign", "SyncChangeset"}

\* C14: every mutating operation opens a tracing span, and when it returns
\* an error, an error has been recorded on that span by the time it returns.
C14_ErrorRecordedOnSpan ==
    (rs.pc = "returned" /\ rs.op \in MutatingOps) =>
        /\ rs.span.opened
        /\ rs.err # NilErr => (rs.span.err # NilErr /\ rs.span.finished)

\* The id the token of a SyncChangeset call decodes to names no changeset.
RsSyncMissing == rs.tok.n \notin ChangesetIDs \/ rs.changesets[rs.tok.n] = "absent"
\* The same call with another token.
RsWithToken(r, tok) ==
    RsCall(r.op, tok, r.user, r.readAccess, r.storeFail, r.visible, r.dbFail,
           r.campaigns, r.changesets)

\* C15 as stated: SyncChangeset fails for the id of a changeset that does
\* not exist and fails with the same error for id 0, and never returns
\* success without having scheduled a sync.
C15_ZeroFailsLikeMissing ==
    (RsReturned("SyncChangeset") /\ rs.tok.ok) =>
        /\ RsSyncMissing => (rs.err # NilErr /\ rs.result = "nil")
        /\ rs.tok.n = 0 =>
               rs.err = SyncChangeset(RsWithToken(rs, [ok |-> TRUE, n |-> MaxID + 1])).err
        /\ rs.err = NilErr => rs.changesets[rs.tok.n] = "queued"

\* C15, amended: SyncChangeset fails for the id of a changeset that does not
\* exist with the error of the service, and for id 0 with ErrIDIsZero, which
\* is another error and is returned before the service is called; either way
\* it returns no result and schedules nothing, and it never returns success
\* without having scheduled a sync.
C15_ZeroAndMissingFail ==
    [][(RsRuns("SyncChangeset") /\ rs.tok.ok) =>
          /\ RsSyncMissing => (rs'.err # NilErr /\ rs'.result = "nil" /\ RsStoreUnchanged)
          /\ rs.tok.n = 0 => (rs'.err = ErrIDIsZero /\ rs'.svcCalls = 0)
          /\ (rs.tok.n # 0 /\ RsSyncMissing) => (rs'.err # ErrIDIsZero /\ rs'.svcCalls = 1)
          /\ rs'.err = NilErr => rs'.changesets[rs.tok.n] = "queued"]_vars

C15_Witness ==
    /\ RsReturned("SyncChangeset") /\ rs.tok.ok /\ rs.tok.n = MaxID + 1
    /\ rs.user = "admin" /\ ~rs.storeFail /\ rs.changesets[1] = "present"
    /\ rs.err = ErrNoResults /\ rs.svcCalls = 1

\* C16: CloseCampaign, DeleteCampaign and SyncChangeset, given an id that
\* fails to decode or decodes to 0, return an error without calling the
\* campaign service, and the store is as it was.
C16_BadIdNeverReachesService ==
    [][((RsRuns("CloseCampaign") \/ RsRuns("DeleteCampaign") \/ RsRuns("SyncChangeset"))
          /\ (~rs.tok.ok \/ rs.tok.n = 0)) =>
          /\ rs'.err # NilErr /\ rs'.result = "nil"
          /\ rs'.svcCalls = 0 /\ RsStoreUnchanged]_vars

C16_Witness ==
    /\ RsReturned("DeleteCampaign") /\ rs.tok.ok /\ rs.tok.n = 0 /\ rs.user = "admin"
    /\ rs.err = ErrIDIsZero /\ rs.svcCalls = 0 /\ rs.campaigns[1] = "open"

\* C25: Campaigns returns a non-nil error whenever the site-admin check
\* fails with an error other than the must-be-site-admin error, and it never
\* returns a nil connection together with a nil error.
C25_AuthErrorIsReturned ==
    RsReturned("Campaigns") =>
        /\ CheckCurrentUserIsSiteAdmin(rs.user) \notin {NilErr, ErrMustBeSiteAdmin}
               => rs.err # NilErr
        /\ ~(rs.result = "nil" /\ rs.err = NilErr)

(***************************************************************************)
(* Claims about defaultCampaignsResolver.                                  *)
(***************************************************************************)
\* C17: every operation of the default resolver, the nine mutations and the
\* three queries, returns a nil result together with the sentinel error
\* campaignsOnlyInEnterprise, whatever its argument and caller.
C17_DefaultOnlyInEnterprise ==
    /\ Cardinality(DefaultMutations) = 9 /\ Cardinality(DefaultQueries) = 3
    /\ dflt.pc = "returned" =>
           (dflt.op \in DefaultOps /\ dflt.result = "nil" /\ dflt.err = CampaignsOnlyInEnterprise)

C17_Witness ==
    /\ dflt.pc = "returned" /\ dflt.op = "Campaigns" /\ dflt.user = "admin"
    /\ dflt.err = CampaignsOnlyInEnterprise

(***************************************************************************)
(* Claims about the extension host's query transformers.                   *)
(***************************************************************************)
\* The transformers registered and not unsubscribed since, in the order of
\* their registration.
RECURSIVE LiveValues(_)
LiveValues(handles) ==
    IF handles = <<>> THEN <<>>
    ELSE (IF Head(handles).unsubscribed THEN <<>> ELSE <<Head(handles).value>>)
         \o LiveValues(Tail(handles))
Registered(e) == LiveValues(e.handles)

\* C18: a subscriber of transformSearchQuery(q) first receives q transformed
\* by the transformers registered when it subscribes (q itself when there are
\* none), and after each later registerQueryTransformer call it receives one
\* more value: q through all transformers registered then, in the order of
\* their registration.
C18_SubscriberFollowsRegistrations ==
    [][/\ (~ext.sub.active /\ ext'.sub.active) =>
              ext'.sub.received = <<TransformAll(Registered(ext), ext'.sub.query)>>
       /\ (ext.sub.active /\ Len(ext'.handles) > Len(ext.handles)) =>
              ext'.sub.received =
                  Append(ext.sub.received, TransformAll(Registered(ext'), ext.sub.query))]_vars


\* The array without every occurrence of value.
Without(array, value) == SelectSeq(array, LAMBDA t : t # value)
\* The handle unsubscribed by this step, if the step is an unsubscribe.
Unsubscribed(before, after) ==
    {i \in 1..Len(before) : ~before[i].unsubscribed /\ after[i].unsubscribed}

\* C21: registering through addElementWithRollback appends the element to the
\* state array and announces the new array; the unsubscribe of the returned
\* handle removes that element from the state array and announces the array
\* without it, every other element staying in the state.  It holds for the
\* query transformers and for the hover providers.
C21_RegisterAddsUnsubscribeRemoves ==
    [][/\ Len(ext'.handles) > Len(ext.handles) =>
              /\ ext'.queryTransformers =
                     Append(ext.queryTransformers, ext'.handles[Len(ext'.handles)].value)
              /\ ext'.replay = ext'.queryTransformers
       /\ Len(ext'.hoverHandles) > Len(ext.hoverHandles) =>
              /\ ext'.hoverProviders =
                     Append(ext.hoverProviders, ext'.hoverHandles[Len(ext'.hoverHandles)].value)
              /\ ext'.hoverChanges = ext'.hoverProviders
       /\ (ext.pc = "on" /\ Len(ext'.handles) = Len(ext.handles)) =>
              \A i \in Unsubscribed(ext.handles, ext'.handles) :
                  /\ ext'.queryTransformers = Without(ext.queryTransformers, ext.handles[i].value)
                  /\ ext'.replay = ext'.queryTransformers
       /\ (ext.pc = "on" /\ Len(ext'.hoverHandles) = Len(ext.hoverHandles)) =>
              \A i \in Unsubscribed(ext.hoverHandles, ext'.hoverHandles) :
                  /\ ext'.hoverProviders = Without(ext.hoverProviders, ext.hoverHandles[i].value)
                  /\ ext'.hoverChanges = ext'.hoverProviders]_vars

\* C22: whatever registrations and unsubscribes were made, the array in the
\* extension state equals the array last announced on its change subject:
\* state.queryTransformers on queryTransformersChanges, state.hoverProviders
\* on hoverProvidersChanges.
C22_StateEqualsLastAnnounced ==
    ext.pc = "on" =>
        /\ ext.queryTransformers = ext.replay
        /\ ext.hoverProviders = ext.hoverChanges

(***************************************************************************)
(* Claims about fileDiffVirtualFileContent.                                *)
(***************************************************************************)
\* C24: when reading the old file's content failed, the memoized function
\* returns a non-nil error to every caller; it never returns content with a
\* nil error after such a failure.
C24_ReadFailureIsReturned ==
    \A p \in Callers :
        (vf.pc = "on" /\ vf.oldFile.kind = "fails" /\ vf.callerPc[p] = "returned")
            => vf.callerRet[p].err # "nil"

====
